---- MODULE Spec2Model ----
(***************************************************************************)
(* A model of covid_analysis.py: the cached loader/cleaner (load_data),    *)
(* the aggregator (preprocess_data) and the part of main() that computes   *)
(* the summary metrics and the latest-date snapshot.                       *)
(*                                                                         *)
(* Representation.                                                         *)
(*   - a string is the sequence of its Unicode code points;                *)
(*   - a CSV Date field is a record [kind, y, m, d]: the text "y-m-d"      *)
(*     (kind "ymd"), an empty field (kind "empty") or text that is no date *)
(*     (kind "text");                                                      *)
(*   - a CSV counter field is a record [kind, tenths]: a decimal literal   *)
(*     worth tenths/10 (kind "num"), an empty field or non-numeric text;   *)
(*   - a pandas cell is a record [t, v]: NaN, a string, or a number in     *)
(*     tenths;                                                             *)
(*   - a float of the derived series is a pair <<numerator, denominator>>; *)
(*     NaN is <<0, 0>>;                                                    *)
(*   - a DataFrame is a sequence of records, one per row.                  *)
(***************************************************************************)
EXTENDS Integers, Sequences, FiniteSets, TLC

VARIABLES
    source,          \* dataset/covid_19_india.csv: the sequence of raw rows
    cache,           \* st.cache_data's store for load_data: <<>> or <<table>>
    reads,           \* how many times pd.read_csv has run
    pc,              \* where the caller is: see each specification
    cases_df,        \* the cleaned table the caller holds
    state_options,   \* the options of the sidebar's select box (as a set)
    selected_state,  \* the region filter of the latest preprocess_data call
    state_data,      \* the Derived Series returned by that call
    metrics,         \* the four strings given to st.metric
    latest_data,     \* the rows given to st.dataframe
    runs,            \* how many times main() has run
    first_call       \* the first preprocess_data call: its arguments and result,
                     \* and whether a call with another filter followed it

vars == <<source, cache, reads, pc, cases_df, state_options, selected_state,
          state_data, metrics, latest_data, runs, first_call>>

(***************************************************************************)
(* Bounds of the model.                                                    *)
(***************************************************************************)
MaxDirtyRows == 2    \* rows of a raw file drawn from DirtyRows
MaxGridDays == 3     \* dates of a two-region file
MaxSeriesLen == 9    \* rows of a one-region file
MaxRuns == 3         \* runs of main() in one process

(***************************************************************************)
(* Strings.                                                                *)
(***************************************************************************)
Str_A == <<65>>                  \* "A"
Str_B == <<66>>                  \* "B"
Str_Z == <<90>>                  \* "Z"
Str_A_padded == <<32, 65, 160>>  \* space, "A", no-break space
Str_A_led == <<12, 65>>          \* form feed, "A"
AllIndia == <<65, 108, 108, 32, 73, 110, 100, 105, 97>>  \* "All India"

\* the characters str.strip() removes when given no argument: those for which
\* str.isspace() holds (\t \n \x0b \x0c \r, \x1c-\x1f, space, \x85, \xa0,
\* U+1680, U+2000-U+200A, U+2028, U+2029, U+202F, U+205F, U+3000)
Whitespace ==
    (9..13) \cup (28..32) \cup {133, 160, 5760} \cup (8192..8202)
    \cup {8232, 8233, 8239, 8287, 12288}

RECURSIVE lstrip(_)
lstrip(s) ==
    IF s # <<>> /\ Head(s) \in Whitespace THEN lstrip(Tail(s)) ELSE s

RECURSIVE rstrip(_)
rstrip(s) ==
    IF s # <<>> /\ s[Len(s)] \in Whitespace
    THEN rstrip(SubSeq(s, 1, Len(s) - 1))
    ELSE s

\* Series.str.strip() on one label
str_strip(s) == rstrip(lstrip(s))

(***************************************************************************)
(* pd.to_datetime on one Date field.                                       *)
(***************************************************************************)
NaT == -1

IsLeap(y) == (y % 4 = 0) /\ ((y % 100 # 0) \/ (y % 400 = 0))

DaysInMonth(y, m) ==
    IF m = 2 THEN (IF IsLeap(y) THEN 29 ELSE 28)
    ELSE IF m \in {4, 6, 9, 11} THEN 30 ELSE 31

RECURSIVE DaysBeforeMonth(_, _)
DaysBeforeMonth(y, m) ==
    IF m <= 1 THEN 0 ELSE DaysBeforeMonth(y, m - 1) + DaysInMonth(y, m - 1)

\* the proleptic Gregorian ordinal of y-m-d (day 1 is 0001-01-01)
ToOrdinal(y, m, d) ==
    365 * (y - 1) + ((y - 1) \div 4) - ((y - 1) \div 100) + ((y - 1) \div 400)
    + DaysBeforeMonth(y, m) + d

IsCalendarDate(f) ==
    /\ f.kind = "ymd"
    /\ f.y >= 1 /\ f.m \in 1..12
    /\ f.d \in 1..DaysInMonth(f.y, f.m)

\* one element of pd.to_datetime(column): an empty field (NaN) becomes NaT,
\* a date becomes its Timestamp, anything else raises. The texts modelled are
\* "YYYY-MM-DD" with a month of 1 to 12 (the day may be off the calendar) and
\* text with no date in it.
to_datetime(f) ==
    IF f.kind = "empty" THEN [raised |-> FALSE, value |-> NaT]
    ELSE IF IsCalendarDate(f)
         THEN [raised |-> FALSE, value |-> ToOrdinal(f.y, f.m, f.d)]
         ELSE [raised |-> TRUE, value |-> NaT]

(***************************************************************************)
(* The counter columns: read_csv, fillna(0), to_numeric(errors='coerce'),  *)
(* fillna(0), astype(int).                                                 *)
(***************************************************************************)
NaNCell == [t |-> "nan", v |-> 0]
NumCell(tenths) == [t |-> "num", v |-> tenths]

\* how pd.read_csv hands one counter field to the frame
read_cell(f) ==
    IF f.kind = "empty" THEN NaNCell
    ELSE IF f.kind = "text" THEN [t |-> "str", v |-> 0]
    ELSE NumCell(f.tenths)

fillna_zero(c) == IF c.t = "nan" THEN NumCell(0) ELSE c

to_numeric_coerce(c) == IF c.t = "str" THEN NaNCell ELSE c

\* astype(int) of a finite float: truncation toward zero
astype_int(c) ==
    IF c.v < 0 THEN -((-c.v) \div 10) ELSE c.v \div 10

clean_counter(f) ==
    astype_int(fillna_zero(to_numeric_coerce(fillna_zero(read_cell(f)))))

(***************************************************************************)
(* load_data without its cache.                                            *)
(***************************************************************************)
parse_raises(src) == \E i \in 1..Len(src) : to_datetime(src[i].Date).raised

typed_rows(src) ==
    [i \in 1..Len(src) |->
        [Date |-> to_datetime(src[i].Date).value,
         State |-> str_strip(src[i].State),
         Confirmed |-> clean_counter(src[i].Confirmed),
         Deaths |-> clean_counter(src[i].Deaths),
         Cured |-> clean_counter(src[i].Cured)]]

SameKey(a, b) == a.Date = b.Date /\ a.State = b.State

\* drop_duplicates with keep='first'
kept_positions_first(df) ==
    {i \in 1..Len(df) : \A j \in 1..(i - 1) : ~SameKey(df[i], df[j])}

\* positions kept by drop_duplicates(subset=['Date', 'State/UnionTerritory'],
\* keep='last')
kept_positions(df) ==
    {i \in 1..Len(df) : \A j \in (i + 1)..Len(df) : ~SameKey(df[i], df[j])}

RECURSIVE take(_, _, _)
take(df, keep, i) ==
    IF i > Len(df) THEN <<>>
    ELSE (IF i \in keep THEN <<df[i]>> ELSE <<>>) \o take(df, keep, i + 1)

drop_duplicates(df) == take(df, kept_positions(df), 1)

\* the order of sort_values('Date'): ascending, NaT last
DateLe(a, b) == b = NaT \/ (a # NaT /\ a <= b)

\* sort_values('Date') uses an unstable sort: rows of equal Date may come out
\* in any order, so the result is any of these sequences
RECURSIVE sort_orders(_, _)
sort_orders(df, idx) ==
    IF idx = {} THEN {<<>>}
    ELSE UNION {{<<df[i]>> \o t : t \in sort_orders(df, idx \ {i})} :
                i \in {j \in idx : \A k \in idx : DateLe(df[j].Date, df[k].Date)}}

sort_values(df) == sort_orders(df, 1..Len(df))

\* the outcomes of one run of load_data's body on the file's rows
load_data_body(src) ==
    IF parse_raises(src)
    THEN {[raised |-> TRUE, df |-> <<>>]}
    ELSE {[raised |-> FALSE, df |-> t] :
          t \in sort_values(drop_duplicates(typed_rows(src)))}

\* load_data without the @st.cache_data decorator: every call runs the body
load_data_undecorated(src, store) ==
    {[raised |-> o.raised, df |-> o.df,
      store |-> IF o.raised THEN <<>> ELSE <<o.df>>, read |-> 1] :
     o \in load_data_body(src)}

\* @st.cache_data on a function of no arguments: a hit returns the stored
\* table and does not run the body; a miss runs it and stores what it returns;
\* a raised exception stores nothing
load_data(src, store) ==
    IF store # <<>>
    THEN {[raised |-> FALSE, df |-> store[1], store |-> store, read |-> 0]}
    ELSE {[raised |-> o.raised, df |-> o.df,
           store |-> IF o.raised THEN <<>> ELSE <<o.df>>, read |-> 1] :
          o \in load_data_body(src)}

(***************************************************************************)
(* preprocess_data.                                                        *)
(***************************************************************************)
Window == 7

NaN == <<0, 0>>
Float(n) == <<n, 1>>

\* cases_df[cases_df['State/UnionTerritory'] == selected_state]
boolean_mask(df, sel) == SelectSeq(df, LAMBDA r : r.State = sel)

RECURSIVE sorted_seq(_)
sorted_seq(S) ==
    IF S = {} THEN <<>>
    ELSE LET m == CHOOSE x \in S : \A y \in S : x <= y
         IN <<m>> \o sorted_seq(S \ {m})

RECURSIVE group_sum(_, _, _, _)
group_sum(df, key, col, i) ==
    IF i > Len(df) THEN 0
    ELSE (IF df[i].Date = key THEN df[i][col] ELSE 0)
         + group_sum(df, key, col, i + 1)

\* groupby('Date').agg({... 'sum'}).reset_index(): the group keys are the
\* distinct Dates in ascending order; rows whose Date is NaT belong to no group
groupby_sum(df) ==
    LET keys == sorted_seq({df[i].Date : i \in 1..Len(df)} \ {NaT})
    IN [k \in 1..Len(keys) |->
           [Date |-> keys[k],
            Confirmed |-> group_sum(df, keys[k], "Confirmed", 1),
            Deaths |-> group_sum(df, keys[k], "Deaths", 1),
            Cured |-> group_sum(df, keys[k], "Cured", 1)]]

\* Series.diff() at row i (a float column; the first row has no predecessor)
diff(g, col, i) == IF i = 1 THEN NaN ELSE Float(g[i][col] - g[i - 1][col])

fillna(x) == IF x = NaN THEN Float(0) ELSE x

\* the clip left out
clip_nothing(x) == x

clip_lower(x) == IF x # NaN /\ x[1] < 0 THEN Float(0) ELSE x

\* lines 61-68 for one cumulative column, at row i
daily_new(g, col, i) == clip_lower(fillna(diff(g, col, i)))

RECURSIVE window_sum(_, _, _, _)
window_sum(g, col, i, n) ==
    IF n = 0 THEN 0 ELSE daily_new(g, col, i)[1] + window_sum(g, col, i - 1, n - 1)

RECURSIVE partial_sum(_, _, _)
partial_sum(g, col, i) ==
    IF i = 0 THEN 0 ELSE daily_new(g, col, i)[1] + partial_sum(g, col, i - 1)

\* rolling(window=7, min_periods=1).mean(): the early rows average what
\* there is
rolling_mean_min_periods_1(g, col, i) ==
    IF i < Window THEN <<partial_sum(g, col, i), i>>
    ELSE <<partial_sum(g, col, i) - partial_sum(g, col, i - Window), Window>>

\* rolling(window=7).mean() at row i: min_periods defaults to the window, and
\* the window is the 7 rows ending at i. The daily columns hold whole numbers
\* (denominator 1), so the mean is their sum over 7.
rolling_mean(g, col, i) ==
    IF i < Window \/ \E j \in (i - Window + 1)..i : daily_new(g, col, j) = NaN
    THEN NaN
    ELSE <<window_sum(g, col, i, Window), Window>>

derive(g) ==
    [i \in 1..Len(g) |->
        [Date |-> g[i].Date,
         Confirmed |-> g[i].Confirmed,
         Deaths |-> g[i].Deaths,
         Cured |-> g[i].Cured,
         New_Cases |-> daily_new(g, "Confirmed", i),
         New_Deaths |-> daily_new(g, "Deaths", i),
         New_Recoveries |-> daily_new(g, "Cured", i),
         New_Cases_MA |-> rolling_mean(g, "Confirmed", i),
         New_Deaths_MA |-> rolling_mean(g, "Deaths", i),
         New_Recoveries_MA |-> rolling_mean(g, "Cured", i)]]

\* the region filter left out
select_rows_unfiltered(df, sel) == df

select_rows(df, sel) == IF sel = AllIndia THEN df ELSE boolean_mask(df, sel)

\* what one call leaves behind: the frame it returns (ret) and the frame the
\* caller passed in, as it is after the call (arg)
preprocess_data(df, sel) ==
    [ret |-> derive(groupby_sum(select_rows(df, sel))), arg |-> df]

(***************************************************************************)
(* main(): the summary metrics and the latest-date snapshot.               *)
(***************************************************************************)
\* the characters "0" to "9"
DigitChars == <<48, 49, 50, 51, 52, 53, 54, 55, 56, 57>>

RECURSIVE decimal(_)
decimal(n) ==
    IF n < 10 THEN <<DigitChars[n + 1]>>
    ELSE decimal(n \div 10) \o <<DigitChars[(n % 10) + 1]>>

three_digits(n) ==
    <<DigitChars[(n \div 100) + 1], DigitChars[((n \div 10) % 10) + 1],
      DigitChars[(n % 10) + 1]>>

RECURSIVE grouped(_)
grouped(n) ==
    IF n < 1000 THEN decimal(n)
    ELSE grouped(n \div 1000) \o <<44>> \o three_digits(n % 1000)

\* f"{x:,}" for the value of a reduction: an integer (groups of three digits
\* separated by ",", a leading "-" when negative), or the float nan ("nan")
format_thousands(x) ==
    IF x = NaN THEN <<110, 97, 110>>
    ELSE IF x[1] < 0 THEN <<45>> \o grouped(-x[1]) ELSE grouped(x[1])

RECURSIVE running_max(_, _, _)
running_max(sd, col, i) ==
    IF i = 1 THEN sd[1][col]
    ELSE LET m == running_max(sd, col, i - 1)
         IN IF sd[i][col] > m THEN sd[i][col] ELSE m

\* Series.max(): NaN (NaT for dates) on an empty column
series_max(sd, col) ==
    IF Len(sd) = 0 THEN NaN ELSE Float(running_max(sd, col, Len(sd)))

minus(a, b) == IF a = NaN \/ b = NaN THEN NaN ELSE Float(a[1] - b[1])

\* the metrics read off the last row (iloc[-1]), which raises IndexError on
\* an empty frame
key_metrics_last_row(sd) ==
    IF Len(sd) = 0
    THEN [raised |-> TRUE, Total_Cases |-> <<>>, Total_Deaths |-> <<>>,
          Total_Recoveries |-> <<>>, Active_Cases |-> <<>>]
    ELSE [raised |-> FALSE,
          Total_Cases |-> format_thousands(Float(sd[Len(sd)].Confirmed)),
          Total_Deaths |-> format_thousands(Float(sd[Len(sd)].Deaths)),
          Total_Recoveries |-> format_thousands(Float(sd[Len(sd)].Cured)),
          Active_Cases |->
              format_thousands(Float(sd[Len(sd)].Confirmed - sd[Len(sd)].Cured
                                     - sd[Len(sd)].Deaths))]

\* lines 165-173
key_metrics(sd) ==
    [raised |-> FALSE,
     Total_Cases |-> format_thousands(series_max(sd, "Confirmed")),
     Total_Deaths |-> format_thousands(series_max(sd, "Deaths")),
     Total_Recoveries |-> format_thousands(series_max(sd, "Cured")),
     Active_Cases |->
         format_thousands(minus(minus(series_max(sd, "Confirmed"),
                                      series_max(sd, "Cured")),
                                series_max(sd, "Deaths")))]

\* line 181: no row equals the NaT that max() gives on an empty column
latest_rows(sd) ==
    LET top == series_max(sd, "Date")
    IN SelectSeq(sd, LAMBDA r : top # NaN /\ r.Date = top[1])

NoMetrics ==
    [raised |-> FALSE, Total_Cases |-> <<>>, Total_Deaths |-> <<>>,
     Total_Recoveries |-> <<>>, Active_Cases |-> <<>>]

\* line 154 (the select box shows them sorted; only membership matters here)
options_of(df) == {AllIndia} \cup {df[i].State : i \in 1..Len(df)}

(***************************************************************************)
(* The raw files the model is run on.                                      *)
(***************************************************************************)
DateField(y, m, d) == [kind |-> "ymd", y |-> y, m |-> m, d |-> d]
EmptyDate == [kind |-> "empty", y |-> 0, m |-> 0, d |-> 0]
TextDate == [kind |-> "text", y |-> 0, m |-> 0, d |-> 0]

Num(tenths) == [kind |-> "num", tenths |-> tenths]
EmptyNum == [kind |-> "empty", tenths |-> 0]
TextNum == [kind |-> "text", tenths |-> 0]

RawRow(date, label, c) ==
    [Date |-> date, State |-> label,
     Confirmed |-> c[1], Deaths |-> c[2], Cured |-> c[3]]

\* the k-th day from 2020-02-25 on (the range crosses the leap day)
DayK(k) == IF k <= 5 THEN DateField(2020, 2, 24 + k) ELSE DateField(2020, 3, k - 5)

\* dirty files: dates that are valid, missing, off the calendar (2020-02-30)
\* or no date at all; padded labels; counters that are missing, non-numeric,
\* negative or fractional
DirtyDates == {DayK(5), DayK(6), EmptyDate, DateField(2020, 2, 30), TextDate}
DirtyLabels == {Str_A, Str_A_padded, Str_B}
DirtyCounters == {<<Num(120), EmptyNum, TextNum>>, <<Num(-50), Num(37), Num(-37)>>}

DirtyRows ==
    {RawRow(d, l, c) : d \in DirtyDates, l \in DirtyLabels, c \in DirtyCounters}

DirtySources == UNION {[1..n -> DirtyRows] : n \in 0..MaxDirtyRows}

\* two-region files: for each date the file has no row, a low row or a high
\* row of the first region, and no row or a high row of the second; the rows
\* are written region by region, so not in date order
GridLevels(r) == IF r = 1 THEN {"absent", "lo", "hi"} ELSE {"absent", "hi"}

GridLabel(r) == IF r = 1 THEN Str_A_led ELSE Str_B

GridCounters(r, level) ==
    IF r = 1
    THEN (IF level = "lo" THEN <<Num(100), Num(10), Num(20)>>
          ELSE <<Num(200), Num(30), Num(50)>>)
    ELSE (IF level = "lo" THEN <<Num(50), Num(0), Num(10)>>
          ELSE <<Num(15000), Num(20), Num(150)>>)

RECURSIVE GridRows(_, _)
GridRows(choice, n) ==
    IF n = 0 THEN <<>>
    ELSE LET r == ((n - 1) \div MaxGridDays) + 1
             k == ((n - 1) % MaxGridDays) + 1
         IN GridRows(choice, n - 1) \o
            (IF choice[n] = "absent" THEN <<>>
             ELSE <<RawRow(DayK(3 + k), GridLabel(r), GridCounters(r, choice[n]))>>)

GridSources ==
    {GridRows(choice, 2 * MaxGridDays) :
        choice \in {c \in [1..(2 * MaxGridDays) -> GridLevels(1)] :
                       \A n \in (MaxGridDays + 1)..(2 * MaxGridDays) :
                           c[n] \in GridLevels(2)}}

\* one-region files of 6 to MaxSeriesLen rows, on consecutive days (step 1)
\* or every other day (step 2); each day's counters are the low or the high
\* triple, so every cumulative column both rises and falls
SeriesCounters(level) ==
    IF level = "lo" THEN <<Num(20), Num(10), Num(40)>>
    ELSE <<Num(50), Num(30), Num(10)>>

SeriesRows(choice, step) ==
    [i \in 1..Len(choice) |->
        RawRow(DayK(i * step), Str_A, SeriesCounters(choice[i]))]

SeriesSources ==
    {SeriesRows(choice, step) :
        choice \in UNION {[1..n -> {"lo", "hi"}] : n \in 6..MaxSeriesLen},
        step \in {1, 2}}

\* the region filters preprocess_data is called with: Str_Z is no label of
\* any file
Filters == {AllIndia, Str_A, Str_B, Str_Z}

(***************************************************************************)
(* The state before anything has run.                                      *)
(***************************************************************************)
NoCall == [called |-> FALSE, sel |-> <<>>, df |-> <<>>, out |-> <<>>, others |-> FALSE]

InitWith(sources) ==
    /\ source \in sources
    /\ cache = <<>>
    /\ reads = 0
    /\ pc = "start"
    /\ cases_df = <<>>
    /\ state_options = {}
    /\ selected_state = <<>>
    /\ state_data = <<>>
    /\ metrics = NoMetrics
    /\ latest_data = <<>>
    /\ runs = 0
    /\ first_call = NoCall

(***************************************************************************)
(* The Streamlit app: every run of the script is one run of main().        *)
(* pc is "start" before the first run, "shown" when the latest run drew    *)
(* the page, "error" when it ended in an exception (no select box is       *)
(* drawn, so no region can be selected, but the script can be run again).  *)
(***************************************************************************)
Main(sel) ==
    /\ \E o \in load_data(source, cache) :
          /\ cache' = o.store
          /\ reads' = reads + o.read
          /\ IF o.raised
             THEN /\ pc' = "error"
                  /\ UNCHANGED <<cases_df, state_options, selected_state,
                                 state_data, metrics, latest_data>>
             ELSE LET res == preprocess_data(o.df, sel)
                      km == key_metrics(res.ret)
                  IN /\ cases_df' = res.arg
                     /\ state_options' = options_of(o.df)
                     /\ selected_state' = sel
                     /\ state_data' = res.ret
                     /\ IF km.raised
                        THEN /\ pc' = "error"
                             /\ UNCHANGED <<metrics, latest_data>>
                        ELSE /\ pc' = "shown"
                             /\ metrics' = km
                             /\ latest_data' = latest_rows(res.ret)
    /\ runs' = runs + 1
    /\ UNCHANGED <<source, first_call>>

\* the first run of a session: the select box returns its option of index 0
FirstRun ==
    /\ pc = "start"
    /\ Main(AllIndia)

\* the user picks an option of the select box, which re-runs the script
SelectRegion(r) ==
    /\ pc = "shown"
    /\ runs < MaxRuns
    /\ r \in state_options
    /\ Main(r)

Init == InitWith(DirtySources \cup GridSources)

\* the script is run again after a run that ended in an exception (the page
\* is reloaded or re-run): no select box was drawn, so it returns its option
\* of index 0; an exception stored nothing, so load_data runs its body again
Rerun ==
    /\ pc = "error"
    /\ runs < MaxRuns
    /\ Main(AllIndia)

Next ==
    \/ FirstRun
    \/ \E r \in Filters \cup {Str_A_padded} : SelectRegion(r)
    \/ Rerun

Spec == Init /\ [][Next]_vars

(***************************************************************************)
(* The functions called one by one, as a test of the module calls them.    *)
(* pc is "start", "loaded" (load_data returned), "aggregated"              *)
(* (preprocess_data returned), "summarised" (lines 164-182 ran on          *)
(* state_data, which ends the test) or "raised" (a call ended in an        *)
(* exception).                                                             *)
(***************************************************************************)
CallLoadData ==
    /\ pc \in {"start", "loaded"}
    /\ \E o \in load_data(source, cache) :
          /\ cache' = o.store
          /\ reads' = reads + o.read
          /\ IF o.raised
             THEN pc' = "raised" /\ UNCHANGED cases_df
             ELSE pc' = "loaded" /\ cases_df' = o.df
    /\ UNCHANGED <<source, state_options, selected_state, state_data, metrics,
                   latest_data, runs, first_call>>

CallPreprocess(r) ==
    /\ pc \in {"loaded", "aggregated"}
    /\ LET res == preprocess_data(cases_df, r)
       IN /\ cases_df' = res.arg
          /\ state_data' = res.ret
          /\ selected_state' = r
          /\ first_call' =
                IF first_call.called
                THEN [first_call EXCEPT !.others = @ \/ r # first_call.sel]
                ELSE [called |-> TRUE, sel |-> r, df |-> cases_df, out |-> res.ret,
                      others |-> FALSE]
    /\ pc' = "aggregated"
    /\ UNCHANGED <<source, cache, reads, state_options, metrics, latest_data, runs>>

CallSummary ==
    /\ pc = "aggregated"
    /\ LET km == key_metrics(state_data)
       IN IF km.raised
          THEN pc' = "raised" /\ UNCHANGED <<metrics, latest_data>>
          ELSE /\ pc' = "summarised"
               /\ metrics' = km
               /\ latest_data' = latest_rows(state_data)
    /\ UNCHANGED <<source, cache, reads, cases_df, state_options, selected_state,
                   state_data, runs, first_call>>

NextUnit == CallLoadData \/ (\E r \in Filters : CallPreprocess(r)) \/ CallSummary

InitUnit == InitWith(DirtySources \cup GridSources)

SpecUnit == InitUnit /\ [][NextUnit]_vars

InitSeries == InitWith(SeriesSources)

SpecSeries == InitSeries /\ [][NextUnit]_vars

(***************************************************************************)
(* The claims.                                                             *)
(***************************************************************************)
Aggregated == pc \in {"aggregated", "summarised"}

\* the rows of cases_df that the filter selected_state lets through
MatchingRows ==
    {i \in 1..Len(cases_df) :
        selected_state = AllIndia \/ cases_df[i].State = selected_state}

RECURSIVE SumOver(_, _)
SumOver(S, col) ==
    IF S = {} THEN 0
    ELSE LET i == CHOOSE x \in S : TRUE
         IN cases_df[i][col] + SumOver(S \ {i}, col)

CumulativeColumns == {"Confirmed", "Deaths", "Cured"}

DailyColumn(col) ==
    IF col = "Confirmed" THEN "New_Cases"
    ELSE IF col = "Deaths" THEN "New_Deaths" ELSE "New_Recoveries"

AverageColumn(col) ==
    IF col = "Confirmed" THEN "New_Cases_MA"
    ELSE IF col = "Deaths" THEN "New_Deaths_MA" ELSE "New_Recoveries_MA"

\* C1: preprocess_data returns one row per distinct date of the rows that
\* match the filter (every row for 'All India', the rows of that label
\* otherwise; a row whose Date is NaT has no date), in strictly ascending date
\* order, and each row's Confirmed, Deaths and Cured are the sums of those
\* counters over the matching rows of that date.
C1_OneRowPerDateWithSums ==
    Aggregated =>
        LET dates == {cases_df[i].Date : i \in MatchingRows} \ {NaT}
        IN /\ Len(state_data) = Cardinality(dates)
           /\ {state_data[k].Date : k \in 1..Len(state_data)} = dates
           /\ \A k \in 1..(Len(state_data) - 1) :
                 state_data[k].Date < state_data[k + 1].Date
           /\ \A k \in 1..Len(state_data) : \A col \in CumulativeColumns :
                 state_data[k][col] =
                     SumOver({i \in MatchingRows :
                                 cases_df[i].Date = state_data[k].Date}, col)

\* two regions on each of two dates, summed for 'All India', while the table
\* is not in date-then-region order
C1_Witness ==
    /\ pc = "aggregated"
    /\ selected_state = AllIndia
    /\ Len(state_data) >= 2
    /\ \E i, j \in 1..Len(cases_df) :
          /\ cases_df[i].Date = state_data[2].Date
          /\ cases_df[j].Date = state_data[2].Date
          /\ cases_df[i].State # cases_df[j].State
          /\ state_data[2].Confirmed = cases_df[i].Confirmed + cases_df[j].Confirmed
    /\ \E i \in 1..Len(cases_df) : cases_df[i].State = Str_B

\* C2: in every Derived Series each of New Cases, New Deaths and New
\* Recoveries is 0 in the first row and max(0, cumulative[i] - cumulative[i-1])
\* in every later row, so no daily delta is negative even when the cumulative
\* counter falls.
C2_DailyDeltas ==
    Aggregated =>
        \A i \in 1..Len(state_data) : \A col \in CumulativeColumns :
            LET new == state_data[i][DailyColumn(col)]
                delta == state_data[i][col] - state_data[i - 1][col]
            IN /\ new[2] = 1
               /\ new[1] >= 0
               /\ i = 1 => new[1] = 0
               /\ i > 1 => new[1] = (IF delta > 0 THEN delta ELSE 0)

\* a series in which Confirmed falls and then rises
C2_Witness ==
    /\ pc = "aggregated"
    /\ Len(state_data) >= 3
    /\ \E i \in 2..(Len(state_data) - 1) :
          /\ state_data[i].Confirmed < state_data[i - 1].Confirmed
          /\ state_data[i].New_Cases = Float(0)
          /\ state_data[i + 1].New_Cases[1] > 0

RECURSIVE SumDaily(_, _, _)
SumDaily(col, lo, hi) ==
    IF lo > hi THEN 0
    ELSE state_data[hi][DailyColumn(col)][1] + SumDaily(col, lo, hi - 1)

\* C3: in every Derived Series the 7-day moving average of each delta column
\* is absent (NaN, not zero) in the first six rows, and in every later row is
\* the mean of the column over that row and the six rows before it, by row
\* position whatever the gaps between the dates; a series of fewer than seven
\* rows has no defined average.
C3_RollingMean ==
    Aggregated =>
        \A i \in 1..Len(state_data) : \A col \in CumulativeColumns :
            LET ma == state_data[i][AverageColumn(col)]
            IN /\ i <= 6 => ma = NaN
               /\ i >= 7 => /\ ma[2] # 0
                            /\ ma[1] * 7 = ma[2] * SumDaily(col, i - 6, i)

\* nine rows two days apart, with different averages in rows 7, 8 and 9; the
\* row that leaves the window at row 9 has a positive daily value
C3_Witness ==
    /\ pc = "aggregated"
    /\ Len(state_data) >= 9
    /\ state_data[2].New_Cases[1] > 0
    /\ state_data[8].New_Cases_MA # state_data[9].New_Cases_MA
    /\ state_data[2].Date = state_data[1].Date + 2
    /\ state_data[6].New_Cases_MA = NaN
    /\ state_data[7].New_Cases_MA # NaN
    /\ state_data[7].New_Cases_MA[1] > 0
    /\ state_data[7].New_Cases_MA # state_data[8].New_Cases_MA

LastRow == state_data[Len(state_data)]

\* C4: the four summary metrics are the latest date's cumulative totals:
\* Total Cases, Total Deaths and Total Recoveries are the Confirmed, Deaths and
\* Cured of the last row of the Derived Series and Active Cases is that row's
\* Confirmed - Cured - Deaths, also when a counter fell before the last date.
C4_MetricsOfLatestDate ==
    (pc = "shown" /\ Len(state_data) > 0) =>
        /\ metrics.Total_Cases = format_thousands(Float(LastRow.Confirmed))
        /\ metrics.Total_Deaths = format_thousands(Float(LastRow.Deaths))
        /\ metrics.Total_Recoveries = format_thousands(Float(LastRow.Cured))
        /\ metrics.Active_Cases =
              format_thousands(Float(LastRow.Confirmed - LastRow.Cured
                                     - LastRow.Deaths))

\* C5: after load_data every Confirmed, Deaths and Cured of the cleaned table
\* is a non-negative integer, whatever the raw values were, and a missing or
\* non-numeric raw value has become 0.
C5_CountersNonNegative ==
    pc = "loaded" =>
        \A k \in 1..Len(cases_df) : \A col \in CumulativeColumns :
            /\ cases_df[k][col] >= 0
            /\ \E i \in 1..Len(source) :
                  /\ cases_df[k].Date = to_datetime(source[i].Date).value
                  /\ cases_df[k].State = str_strip(source[i].State)
                  /\ source[i][col].kind # "num" => cases_df[k][col] = 0

\* t is s without its leading and trailing whitespace
IsTrimOf(t, s) ==
    \E a, b \in 0..Len(s) :
        /\ a + b <= Len(s)
        /\ t = SubSeq(s, a + 1, Len(s) - b)
        /\ \A k \in 1..a : s[k] \in Whitespace
        /\ \A k \in (Len(s) - b + 1)..Len(s) : s[k] \in Whitespace
        /\ t = <<>> \/ (t[1] \notin Whitespace /\ t[Len(t)] \notin Whitespace)

\* raw rows i and j have the same parsed date and the same trimmed label
SameRawKey(i, j) ==
    /\ to_datetime(source[i].Date).value = to_datetime(source[j].Date).value
    /\ \E t \in {str_strip(source[i].State)} :
          IsTrimOf(t, source[i].State) /\ IsTrimOf(t, source[j].State)

\* C6: the cleaned table holds at most one row per (parsed date, trimmed
\* label), and the row kept for a key carries the counters of the last raw
\* row of that key in input order.
C6_LastDuplicateWins ==
    pc = "loaded" =>
        /\ \A i, j \in 1..Len(cases_df) :
              SameKey(cases_df[i], cases_df[j]) => i = j
        /\ \A i \in 1..Len(source) :
              LET last == CHOOSE j \in i..Len(source) :
                              /\ SameRawKey(i, j)
                              /\ \A k \in (j + 1)..Len(source) : ~SameRawKey(i, k)
              IN \E k \in 1..Len(cases_df) :
                    /\ cases_df[k].Date = to_datetime(source[i].Date).value
                    /\ IsTrimOf(cases_df[k].State, source[i].State)
                    /\ \A col \in CumulativeColumns :
                          cases_df[k][col] = clean_counter(source[last][col])
        /\ Len(cases_df) <= Len(source)

\* two raw rows of one date whose labels differ only in padding and whose
\* counters differ: one row is left
C6_Witness ==
    /\ pc = "loaded"
    /\ Len(source) = 2
    /\ source[1].State # source[2].State
    /\ source[1].Date = source[2].Date
    /\ clean_counter(source[1].Confirmed) # clean_counter(source[2].Confirmed)
    /\ Len(cases_df) = 1

UnknownFilter ==
    /\ selected_state # AllIndia
    /\ \A i \in 1..Len(cases_df) : cases_df[i].State # selected_state

NaNText == <<110, 97, 110>>  \* "nan"

\* C7: for a filter that matches no label, preprocess_data returns an empty
\* series without raising, and the summary metrics and the latest-date
\* snapshot are computed on it without raising.
C7_UnknownRegionIsEmpty ==
    (first_call.called /\ UnknownFilter) =>
        /\ pc \in {"aggregated", "summarised"}
        /\ state_data = <<>>
        /\ pc = "summarised" =>
              /\ ~metrics.raised
              /\ metrics.Total_Cases = NaNText
              /\ metrics.Active_Cases = NaNText
              /\ latest_data = <<>>

\* the filter "Z" on a table that has rows, after the summary ran
C7_Witness ==
    /\ pc = "summarised"
    /\ selected_state = Str_Z
    /\ Len(cases_df) >= 2
    /\ state_data = <<>>

\* C8: if any raw row has a Date that is no calendar date (malformed or
\* missing), load_data fails and produces no cleaned table, so no such row is
\* dropped later either.
C8_BadDateFailsLoad ==
    (pc # "start" /\ \E i \in 1..Len(source) : ~IsCalendarDate(source[i].Date))
        => (pc = "raised" /\ cache = <<>> /\ cases_df = <<>>)

\* C9: within one process, over the first run of main() and any sequence of
\* region selections after it, the file is read and cleaned at most once:
\* a region selection starts from a drawn page, reads nothing, is handed the
\* table the first call stored, unchanged, and recomputes the Derived Series
\* from that table for the selected region.
C9_ReadOnceThenMemoized ==
    [][/\ (pc' # "error" \/ runs' <= 1) => reads' <= 1
       /\ pc = "shown" => (reads = 1 /\ reads' = 1 /\ cache' = cache)
       /\ cache # <<>> => (cache' = cache /\ reads' = reads)
       /\ pc' = "shown" =>
             /\ cache' # <<>>
             /\ reads' = 1
             /\ cases_df' = cache'[1]
             /\ runs' = runs + 1
             /\ state_data' = derive(groupby_sum(
                    IF selected_state' = AllIndia THEN cache'[1]
                    ELSE SelectSeq(cache'[1],
                                   LAMBDA r : r.State = selected_state')))]_vars

\* three runs, the last for a region, on one read of the file
C9_Witness ==
    /\ pc = "shown"
    /\ runs >= 3
    /\ reads = 1
    /\ selected_state = Str_B
    /\ Len(state_data) >= 1

====
